---------------------------- MODULE Spec2Model ----------------------------
(***************************************************************************)
(* Model of whitebox/utils/utils.py: the grouped error aggregation         *)
(* (create_insights, create_accuracy), the categorical encoder             *)
(* (convert_categorical_independent), the serialization layer (to_json,   *)
(* flatten_json) and the prediction error of a class (prob_acc).           *)
(*                                                                         *)
(* A DataFrame is a record [columns, index, data]: the ordered column      *)
(* names, the row labels, and per column the sequence of its values.  A    *)
(* group handed to create_insights carries the extra attribute `name`.     *)
(* Python dicts and lists that callers can hold references to (payloads)   *)
(* live in `heap`; a list argument is a sequence of references into it.    *)
(* A real number is kept exact: a statistic is the record                  *)
(* [num, den, root] standing for num/den, or its square root; a           *)
(* probability is the record [num, den].                                   *)
(***************************************************************************)
EXTENDS Integers, Sequences, FiniteSets, TLC

VARIABLES
    df,     \* the caller's DataFrame (with its `name` attribute)
    heap,   \* the caller's payload dicts, by reference (position)
    call,   \* the call made last: operation and arguments as passed (the
            \* frame passed is always df)
    ret     \* what that call returned or raised

vars == <<df, heap, call, ret>>

---------------------------------------------------------------------------
(* Bounds of the model *)

MaxRows == 3        \* rows of the caller's DataFrame
MaxData == 1        \* records of an initial payload's Data
MaxHeap == 2        \* payload dicts the caller holds
MaxList == 3        \* length of the list passed to flatten_json
MaxFlat == 4        \* records a flattened payload's Data may grow to
MaxDen == 5         \* largest denominator of a predicted probability

---------------------------------------------------------------------------
(* Python values *)

PyNone == [tag |-> "None"]
PyStr(s) == [tag |-> "str", v |-> s]
PyList(s) == [tag |-> "list", v |-> s]
PyInt(n) == [tag |-> "int", v |-> n]
\* a float given in thousandths, sign apart (a float has a negative zero):
\* PyFloat(1234) is 1.234
PyFloat(n) == [tag |-> "float", neg |-> n < 0, mag |-> IF n < 0 THEN -n ELSE n]

Raise(kind, text) == [ok |-> FALSE, kind |-> kind, text |-> text]
Return(v) == [ok |-> TRUE, val |-> v]

Abs(x) == IF x < 0 THEN -x ELSE x

RECURSIVE Sum(_)
Sum(s) == IF s = <<>> THEN 0 ELSE Head(s) + Sum(Tail(s))

Range(s) == {s[i] : i \in DOMAIN s}

---------------------------------------------------------------------------
(* Settings *)

supported_agg_errors == {"MSE", "MAE", "RMSE", "RAW"}

groupbyvars_error == Raise("ValueError", "groupbyvars must be a list of grouping variables and cannot be None")

---------------------------------------------------------------------------
(* pandas / numpy primitives used by the code *)

\* dataframe.shape[0]
Shape0(t) == Len(t.index)

\* GetItem with a fault: attribute access, which raises AttributeError
GetAttr(t, key) ==
    IF key \in Range(t.columns) THEN Return(t.data[key])
    ELSE Raise("AttributeError", "'DataFrame' object has no attribute")

\* group['errors']: the column, or KeyError naming the key
GetItem(t, key) ==
    IF key \in Range(t.columns) THEN Return(t.data[key]) ELSE Raise("KeyError", key)

\* Pow2 with a fault: errors * 2
Times2(s) == [i \in DOMAIN s |-> s[i] * 2]

\* errors ** 2, elementwise
Pow2(s) == [i \in DOMAIN s |-> s[i] * s[i]]

\* np.absolute(errors), elementwise
Absolute(s) == [i \in DOMAIN s |-> Abs(s[i])]

\* np.mean(s)
Mean(s) == [num |-> Sum(s), den |-> Len(s), root |-> FALSE]

\* x ** (1 / 2), with true division (Python 3)
Sqrt(x) == [x EXCEPT !.root = TRUE]

\* pd.DataFrame({k: scalar, ...}, index=[0]); keys in insertion order
\* (dtypes: the dtype pandas infers for each scalar)
ScalarFrame(keys, vals, dtypes) ==
    [columns |-> keys,
     index |-> <<0>>,
     data |-> [k \in Range(keys) |-> <<vals[CHOOSE i \in DOMAIN keys : keys[i] = k]>>],
     dtypes |-> [k \in Range(keys) |-> dtypes[CHOOSE i \in DOMAIN keys : keys[i] = k]]]

\* dataframe.to_dict(orient='records'): one dict per row, in row order
ToDictRecords(t) ==
    [i \in 1..Shape0(t) |-> [c \in Range(t.columns) |-> t.data[c][i]]]

\* the values of a grouping column, in sort order
Labels == <<"a", "b">>

\* RowsOf with a fault: every row, whatever its key
RowsAll(t, col, key) == [i \in 1..Len(t.index) |-> i]

\* the rows (positions) of t whose value in column col is key
RowsOf(t, col, key) ==
    LET Is(i) == t.data[col][i] = key
    IN SelectSeq([i \in 1..Shape0(t) |-> i], Is)

\* one group of cat_df.groupby(col): the rows of t with that key, the frame's
\* row labels kept, and the key as the group's `name`
GroupOf(t, col, key) ==
    LET rows == RowsOf(t, col, key)
    IN [columns |-> t.columns,
        index |-> [j \in DOMAIN rows |-> t.index[rows[j]]],
        data |-> [c \in Range(t.columns) |-> [j \in DOMAIN rows |-> t.data[c][rows[j]]]],
        dtypes |-> t.dtypes,
        name |-> key]

\* cat_df.groupby(by): the group keys, sorted (sort=True), or what pandas raises
GroupBy(t, by) ==
    IF by.tag = "None"
    THEN Raise("TypeError", "You have to supply one of 'by' and 'level'")
    ELSE IF by.tag = "list" /\ by.v = <<>>
    THEN Raise("ValueError", "No group keys passed!")
    ELSE IF by.v \notin Range(t.columns)
    THEN Raise("KeyError", by.v)
    ELSE LET Present(k) == k \in Range(t.data[by.v])
         IN Return(SelectSeq(Labels, Present))

\* pd.concat of the frames the applied function returned, one per key, under
\* the index (key, row label)
ConcatGroups(keys, frames) ==
    [columns |-> frames[1].columns,
     index |-> [k \in DOMAIN keys |-> <<keys[k], frames[k].index[1]>>],
     data |-> [c \in Range(frames[1].columns) |-> [k \in DOMAIN keys |-> frames[k].data[c][1]]],
     dtypes |-> frames[1].dtypes]

\* acc.reset_index(drop=True, inplace=True)
ResetIndex(t) == [t EXCEPT !.index = [i \in 1..Shape0(t) |-> i - 1]]

---------------------------------------------------------------------------
(* create_insights *)

\* TotalOf with a fault: shape[1], the number of columns
TotalOfColumns(group) == PyFloat(1000 * Len(group.columns))

\* 'Total': float(group.shape[0])
TotalOf(group) == PyFloat(1000 * Shape0(group))

\* assert error_type in ['MSE', 'RMSE', 'MAE', 'RAW']
ValidErrorType(error_type) == error_type \in {"MSE", "RMSE", "MAE", "RAW"}

create_insights(group, group_var, error_type) ==
    IF ~ValidErrorType(error_type)
    THEN Raise("AssertionError", "Currently only supports MAE, MSE, RMSE, RAW")
    ELSE LET errors == GetItem(group, "errors") IN
         IF ~errors.ok
         THEN errors
         ELSE LET error_dict ==
                      [MSE |-> Mean(Pow2(errors.val)),
                       RMSE |-> Sqrt(Mean(Pow2(errors.val))),
                       MAE |-> [num |-> Sum(Absolute(errors.val)),
                                den |-> Shape0(group),
                                root |-> FALSE],
                       RAW |-> Mean(errors.val)]
              IN Return(ScalarFrame(
                     <<"groupByValue", "groupByVarName", error_type, "Total">>,
                     <<group.name, group_var, error_dict[error_type],
                       TotalOf(group)>>,
                     <<"object", "object", "float64", "float64">>))

---------------------------------------------------------------------------
(* create_accuracy *)

\* EffectiveErrorType with a fault: the caller's error_type kept
RequestedErrorType(model_type, error_type) == error_type

\* if model_type == 'classification': error_type = 'RAW'
EffectiveErrorType(model_type, error_type) ==
    IF model_type = "classification" THEN "RAW" ELSE error_type

\* cat_df.groupby(groupby).apply(create_insights, group_var=groupby,
\*                               error_type=error_type)
GroupByApply(cat_df, groupby, error_type) ==
    LET grouped == GroupBy(cat_df, groupby) IN
    IF ~grouped.ok
    THEN grouped
    ELSE LET keys == grouped.val
             res == [k \in DOMAIN keys |->
                        create_insights(GroupOf(cat_df, groupby.v, keys[k]),
                                        groupby, error_type)]
             failed == {k \in DOMAIN keys : ~res[k].ok}
         IN IF failed # {}
            THEN res[CHOOSE k \in failed : \A j \in failed : k <= j]
            ELSE Return(ConcatGroups(keys, [k \in DOMAIN keys |-> res[k].val]))

create_accuracy(model_type, cat_df, error_type, groupby) ==
    LET acc == GroupByApply(cat_df, groupby,
                            EffectiveErrorType(model_type, error_type))
    IN IF ~acc.ok THEN acc ELSE Return(ResetIndex(acc.val))

---------------------------------------------------------------------------
(* str() and round() *)

DigitChars == <<"0", "1", "2", "3", "4", "5", "6", "7", "8", "9">>

RECURSIVE NatStr(_)
NatStr(n) ==
    IF n < 10 THEN DigitChars[n + 1]
    ELSE NatStr(n \div 10) \o DigitChars[(n % 10) + 1]

\* the shortest decimal fraction of f thousandths, at least one digit
FracStr(f) ==
    IF f % 100 = 0 THEN DigitChars[(f \div 100) + 1]
    ELSE IF f % 10 = 0
    THEN DigitChars[(f \div 100) + 1] \o DigitChars[((f \div 10) % 10) + 1]
    ELSE DigitChars[(f \div 100) + 1] \o DigitChars[((f \div 10) % 10) + 1]
         \o DigitChars[(f % 10) + 1]

\* round(x, 2) of a float: to the nearest hundredth, the sign kept (an exact
\* tie falls by the binary value of the float; no tie is drawn as an input)
Round2(x) == [x EXCEPT !.mag = ((@ + 5) \div 10) * 10]

\* str(x)
Str(x) ==
    CASE x.tag = "None" -> "None"
      [] x.tag = "str" -> x.v
      [] x.tag = "int" -> (IF x.v < 0 THEN "-" ELSE "") \o NatStr(Abs(x.v))
      [] x.tag = "float" -> (IF x.neg THEN "-" ELSE "") \o NatStr(x.mag \div 1000)
                            \o "." \o FracStr(x.mag % 1000)

---------------------------------------------------------------------------
(* to_json *)

\* RoundIncremental with a fault: the value left as passed
NotRounded(incremental_val) == incremental_val

\* if isinstance(incremental_val, float): incremental_val = round(incremental_val, 2)
RoundIncremental(incremental_val) ==
    IF incremental_val.tag = "float" THEN Round2(incremental_val) ELSE incremental_val

\* ValidVartype with a fault: the assertion on vartype left out
ValidVartypeAny(vartype) == TRUE

\* assert vartype in ['Continuous', 'Categorical', 'Accuracy', 'Percentile']
ValidVartype(vartype) ==
    vartype \in {"Continuous", "Categorical", "Accuracy", "Percentile"}

\* assert html_type in ['error', 'sensitivity', 'percentile']
ValidHtmlType(html_type) == html_type \in {"error", "sensitivity", "percentile"}

to_json(dataframe, vartype, html_type, incremental_val) ==
    IF ~ValidVartype(vartype)
    THEN Raise("AssertionError", "Vartypes should only be continuous, categorical, Percentile or accuracy")
    ELSE IF ~ValidHtmlType(html_type)
    THEN Raise("AssertionError", "html_type must be error or sensitivity")
    ELSE IF html_type = "sensitivity"
    THEN Return([Type |-> vartype,
                 Change |-> Str(RoundIncremental(incremental_val)),
                 Data |-> ToDictRecords(dataframe)])
    ELSE Return([Type |-> vartype,
                 Data |-> ToDictRecords(dataframe)])

---------------------------------------------------------------------------
(* flatten_json *)

\* for val in copydict[1:]: copydict[0]['Data'].extend(val['Data'])
\* h is the heap, first the reference copydict[0], rest the references left
RECURSIVE ExtendAll(_, _, _)
ExtendAll(h, first, rest) ==
    IF rest = <<>> THEN h
    ELSE ExtendAll([h EXCEPT ![first].Data = @ \o h[Head(rest)].Data],
                   first, Tail(rest))

\* the heap flatten_json leaves and what it returns (a reference: the
\* returned dict is the object copydict[0]).  copydict = dictlist[:] is a new
\* list of the same references; dictlist is always a list of dicts here, so
\* the isinstance branches and the final assert always pass.
flatten_json(h, dictlist) ==
    LET copydict == dictlist IN
    IF Len(copydict) > 1
    THEN [heap |-> ExtendAll(h, copydict[1], Tail(copydict)),
          ret |-> Return([ref |-> copydict[1]])]
    ELSE IF Len(copydict) = 0
    THEN [heap |-> h, ret |-> Raise("IndexError", "list index out of range")]
    ELSE [heap |-> h, ret |-> Return([ref |-> copydict[1]])]

---------------------------------------------------------------------------
(* convert_categorical_independent *)

\* pd.Categorical(column).codes: the position of each value among the sorted
\* distinct values of the column, from 0
CatCodes(column) ==
    LET Present(k) == k \in Range(column)
        categories == SelectSeq(Labels, Present)
    IN [i \in DOMAIN column |->
           (CHOOSE j \in DOMAIN categories : categories[j] = column[i]) - 1]

\* dataframe.select_dtypes(include=[...]).columns
SelectDtypes(t, include) == {c \in Range(t.columns) : t.dtypes[c] \in include}

\* for str_col in ...: dataframe.loc[:, str_col] = pd.Categorical(...)
\* (the column becomes of dtype category; its values stay)
ToCategorical(t, str_cols) ==
    [t EXCEPT !.dtypes = [c \in Range(t.columns) |->
                             IF c \in str_cols THEN "category" ELSE t.dtypes[c]]]

\* ToCodes with a fault: the codes never assigned, the categories left
CodesNotAssigned(t, cats) == t

\* for category in cats.columns: dataframe.loc[:, category] = ....cat.codes
ToCodes(t, cats) ==
    [t EXCEPT !.data = [c \in Range(t.columns) |->
                           IF c \in cats THEN CatCodes(t.data[c]) ELSE t.data[c]],
              !.dtypes = [c \in Range(t.columns) |->
                             IF c \in cats THEN "int8" ELSE t.dtypes[c]]]

\* the frame returned (a deep copy, changed) and whether the warning was given
convert_categorical_independent(dataframe) ==
    LET copy == [columns |-> dataframe.columns,
                 index |-> dataframe.index,
                 data |-> dataframe.data,
                 dtypes |-> dataframe.dtypes]
        asCategory == ToCategorical(copy, SelectDtypes(copy, {"object", "category"}))
        cats == SelectDtypes(asCategory, {"category"})
    IN [ok |-> TRUE,
        val |-> ToCodes(asCategory, cats),
        warned |-> cats = {}]

---------------------------------------------------------------------------
(* prob_acc *)

\* a float that is the exact fraction n / d
Frac(n, d) == [num |-> n, den |-> d]

\* 1 - pred_prob
OneMinus(q) == Frac(q.den - q.num, q.den)

\* true_class * ..., (1 - true_class) * ...
IntTimes(k, q) == Frac(k * q.num, q.den)

\* ... + ...
FracPlus(a, b) == Frac(a.num * b.den + b.num * a.den, a.den * b.den)

\* prob_acc with a fault: the two classes exchanged
prob_acc_exchanged(true_class, pred_prob) ==
    FracPlus(IntTimes(true_class, pred_prob),
             IntTimes(1 - true_class, OneMinus(pred_prob)))

\* return (true_class * (1-pred_prob)) + ((1-true_class)*pred_prob)
prob_acc(true_class, pred_prob) ==
    FracPlus(IntTimes(true_class, OneMinus(pred_prob)),
             IntTimes(1 - true_class, pred_prob))

---------------------------------------------------------------------------
(* The inputs callers pass *)

Residuals == {-2, 1, 3}

\* the caller's frames: a numeric column (`errors`, or `random` when the
\* residuals are missing), with or without the grouping column `col2`, of 1
\* to MaxRows rows, under the default row labels 0..n-1, and named as the
\* tests name it (setattr(df, 'name', 'testname')).  A frame has at least one
\* row and every row has a value in col2, so groupby yields at least one
\* group: what pandas does with no group at all is not modelled.
NumericFrames ==
    UNION {{[columns |-> <<nc>>,
             index |-> [i \in 1..n |-> i - 1],
             data |-> (nc :> e),
             dtypes |-> (nc :> "int64"),
             name |-> "testname"] :
               nc \in {"errors", "random"}, e \in [1..n -> Residuals]} :
           n \in 1..MaxRows}

GroupedFrames ==
    UNION {{[columns |-> <<nc, "col2">>,
             index |-> [i \in 1..n |-> i - 1],
             data |-> (nc :> e) @@ ("col2" :> g),
             dtypes |-> (nc :> "int64") @@ ("col2" :> "object"),
             name |-> "testname"] :
               nc \in {"errors", "random"}, e \in [1..n -> Residuals],
               g \in [1..n -> Range(Labels)]} :
           n \in 1..MaxRows}

Frames == NumericFrames \cup GroupedFrames

ErrorTypes == {"MSE", "RMSE", "MAE", "RAW", "R2"}
GroupVars == {PyNone, PyStr("groupvar")}
ModelTypes == {"regression", "classification"}
GroupBys == {PyNone, PyList(<<>>), PyStr("col2")}
VarTypes == {"Continuous", "Categorical", "Accuracy", "Percentile", "Ordinal"}
HtmlTypes == {"error", "sensitivity", "percentile", "html_error"}
\* None, 5, 1.234, 0.996, -0.004
IncrementalVals == {PyNone, PyInt(5), PyFloat(1234), PyFloat(996), PyFloat(-4)}

\* payloads as to_json builds them, of up to MaxData records
PayloadRecords == {[errors |-> 1], [errors |-> 3]}

PayloadData == UNION {[1..n -> PayloadRecords] : n \in 0..MaxData}

\* the caller's i-th payload: an error payload first, sensitivity payloads after
PayloadsAt(i) ==
    IF i = 1
    THEN {[Type |-> "Continuous", Data |-> d] : d \in PayloadData}
    ELSE {[Type |-> "Accuracy", Change |-> "0.1", Data |-> d] : d \in PayloadData}

Heaps ==
    UNION {{h \in [1..n -> UNION {PayloadsAt(i) : i \in 1..n}] :
               \A i \in 1..n : h[i] \in PayloadsAt(i)} :
           n \in 1..MaxHeap}

\* the lists of payloads a caller can pass: references to its payloads
RefLists(h) == UNION {[1..n -> DOMAIN h] : n \in 0..MaxList}

\* true class label (0 or 1)
TrueClasses == {0, 1}

\* predicted probability: the fractions of [0, 1] up to the denominator MaxDen
Probabilities == UNION {{Frac(n, d) : n \in 0..d} : d \in 1..MaxDen}

---------------------------------------------------------------------------
(* The state machine: a caller holding a frame and payloads calls the      *)
(* functions of the module.                                                *)

NoCall == [op |-> "none"]

\* one call on any frame
Init ==
    /\ df \in Frames
    /\ heap = <<>>
    /\ call = NoCall
    /\ ret = Return(PyNone)

\* the frame of test_create_accuracy_output_shape, cut to three rows
SeqFrame ==
    [columns |-> <<"errors", "col2">>,
     index |-> <<0, 1, 2>>,
     data |-> ("errors" :> <<1, -2, 3>>) @@ ("col2" :> <<"a", "a", "b">>),
     dtypes |-> ("errors" :> "int64") @@ ("col2" :> "object"),
     name |-> "testname"]

\* any sequence of calls, by a caller that holds payloads
InitSeq ==
    /\ df = SeqFrame
    /\ heap \in Heaps
    /\ call = NoCall
    /\ ret = Return(PyNone)

CreateInsights ==
    \E group_var \in GroupVars, error_type \in ErrorTypes :
        /\ call' = [op |-> "create_insights",
                    group_var |-> group_var, error_type |-> error_type]
        /\ ret' = create_insights(df, group_var, error_type)
        /\ UNCHANGED <<df, heap>>

CreateAccuracy ==
    \E model_type \in ModelTypes, error_type \in ErrorTypes, groupby \in GroupBys :
        /\ call' = [op |-> "create_accuracy", model_type |-> model_type,
                    error_type |-> error_type, groupby |-> groupby]
        /\ ret' = create_accuracy(model_type, df, error_type, groupby)
        /\ UNCHANGED <<df, heap>>

ToJson ==
    \E vartype \in VarTypes, html_type \in HtmlTypes :
        \E incremental_val \in
               (IF html_type = "sensitivity" THEN IncrementalVals ELSE {PyNone}) :
            /\ call' = [op |-> "to_json", vartype |-> vartype,
                        html_type |-> html_type, incremental_val |-> incremental_val]
            /\ ret' = to_json(df, vartype, html_type, incremental_val)
            /\ UNCHANGED <<df, heap>>

FlattenJson ==
    \E dictlist \in RefLists(heap) :
        LET r == flatten_json(heap, dictlist) IN
        /\ \A i \in DOMAIN r.heap : Len(r.heap[i].Data) <= MaxFlat
        /\ call' = [op |-> "flatten_json", dictlist |-> dictlist,
                    payloads |-> [i \in DOMAIN dictlist |-> heap[dictlist[i]]]]
        /\ heap' = r.heap
        /\ ret' = r.ret
        /\ UNCHANGED df

ConvertCategoricalIndependent ==
    /\ call' = [op |-> "convert_categorical_independent"]
    /\ ret' = convert_categorical_independent(df)
    /\ UNCHANGED <<df, heap>>

ProbAcc ==
    \E true_class \in TrueClasses, pred_prob \in Probabilities :
        /\ call' = [op |-> "prob_acc", true_class |-> true_class,
                    pred_prob |-> pred_prob]
        /\ ret' = Return(prob_acc(true_class, pred_prob))
        /\ UNCHANGED <<df, heap>>

Next ==
    \/ CreateInsights
    \/ CreateAccuracy
    \/ ToJson
    \/ FlattenJson
    \/ ConvertCategoricalIndependent
    \/ ProbAcc

\* the first call of a caller
First ==
    \/ call = NoCall /\ CreateInsights
    \/ call = NoCall /\ CreateAccuracy
    \/ call = NoCall /\ ToJson
    \/ call = NoCall /\ FlattenJson
    \/ call = NoCall /\ ConvertCategoricalIndependent
    \/ call = NoCall /\ ProbAcc

Spec == Init /\ [][First]_vars

SpecSeq == InitSeq /\ [][Next]_vars

---------------------------------------------------------------------------
(* Claims *)

InsightColumns(error_type) == {"groupByValue", "groupByVarName", error_type, "Total"}

\* the residuals of the rows of df whose col2 is v, in row order
ResidualsOf(v) ==
    LET Is(i) == df.data["col2"][i] = v
        rows == SelectSeq([i \in 1..Len(df.index) |-> i], Is)
    IN [j \in DOMAIN rows |-> df.data["errors"][rows[j]]]

\* create_accuracy was called for regression with a supported error_type,
\* grouping by col2, on a frame that has the columns errors and col2
AccuracyCase ==
    /\ call.op = "create_accuracy"
    /\ call.model_type = "regression"
    /\ call.error_type \in supported_agg_errors
    /\ call.groupby = PyStr("col2")
    /\ {"errors", "col2"} \subseteq Range(df.columns)

\* C1: create_accuracy for regression, grouping a frame with an errors column
\* by one column, returns a table of exactly 4 columns (groupByValue,
\* groupByVarName, <error_type>, Total) with exactly one row per distinct
\* value of the grouping column, that row's groupByValue being the value and
\* its Total the number of rows of the frame having it; the rows are labelled
\* 0, 1, ... (the partition index is dropped).
C1_AccuracyOneRowPerGroup ==
    AccuracyCase =>
        /\ ret.ok
        /\ Len(ret.val.columns) = 4
        /\ Range(ret.val.columns) = InsightColumns(call.error_type)
        /\ Len(ret.val.index) = Cardinality(Range(df.data["col2"]))
        /\ \A c \in Range(ret.val.columns) : Len(ret.val.data[c]) = Len(ret.val.index)
        /\ \A i \in DOMAIN ret.val.index : ret.val.index[i] = i - 1
        /\ \A v \in Range(df.data["col2"]) :
              \E i \in DOMAIN ret.val.index :
                  /\ ret.val.data["groupByValue"][i] = v
                  /\ ret.val.data["Total"][i] = PyFloat(1000 * Len(ResidualsOf(v)))

\* C1's case: two groups, one of them of two rows
C1_Witness ==
    /\ AccuracyCase
    /\ ret.ok
    /\ Len(ret.val.index) = 2
    /\ \E i \in DOMAIN ret.val.index : ret.val.data["Total"][i] = PyFloat(2000)

\* create_insights was called with a supported error_type on a frame that has
\* the errors column
InsightsCase ==
    /\ call.op = "create_insights"
    /\ call.error_type \in supported_agg_errors
    /\ "errors" \in Range(df.columns)

RECURSIVE SumOfSquares(_)
SumOfSquares(e) ==
    IF e = <<>> THEN 0 ELSE SumOfSquares(Tail(e)) + Head(e) * Head(e)

\* C2: create_insights with error_type 'MSE' on residuals e_1..e_n returns a
\* row whose MSE is mean(e_i^2): MSE * n is the sum of the e_i^2.
C2_MseIsMeanOfSquares ==
    (InsightsCase /\ call.error_type = "MSE") =>
        /\ ret.ok
        /\ LET mse == ret.val.data["MSE"][1]
               e == df.data["errors"]
           IN /\ ~mse.root
              /\ mse.den = Len(e)
              /\ mse.num = SumOfSquares(e)

\* C2's case: three residuals that are neither all equal nor all 1
C2_Witness ==
    /\ InsightsCase
    /\ call.error_type = "MSE"
    /\ df.data["errors"] = <<-2, 1, 3>>
    /\ ret.ok
    /\ ret.val.data["MSE"][1] = [num |-> 14, den |-> 3, root |-> FALSE]

\* C3: create_insights on a group that has an errors column returns, for
\* every supported error_type, a table of 1 row and the 4 columns
\* groupByValue, groupByVarName, <error_type>, Total, with Total the number
\* of rows of the group.
C3_InsightShape ==
    InsightsCase =>
        /\ ret.ok
        /\ Len(ret.val.index) = 1
        /\ Len(ret.val.columns) = 4
        /\ Range(ret.val.columns) = InsightColumns(call.error_type)
        /\ \A c \in Range(ret.val.columns) : Len(ret.val.data[c]) = 1
        /\ ret.val.data["Total"][1] = PyFloat(1000 * Len(df.index))

\* C3's case: a group of three rows and two columns, with RMSE asked
C3_Witness ==
    /\ InsightsCase
    /\ call.error_type = "RMSE"
    /\ Len(df.index) = 3
    /\ Len(df.columns) = 2
    /\ ret.ok
    /\ ret.val.data["Total"][1] = PyFloat(3000)

\* C4: create_accuracy called with groupby None, or an empty list, always
\* fails with the catalog's groupbyvars error and returns no accuracy table.
C4_MissingGroupbyRaisesCatalogError ==
    (call.op = "create_accuracy" /\ call.groupby \in {PyNone, PyList(<<>>)}) =>
        ret = groupbyvars_error

\* C5: create_insights called with a supported error_type on a group that has
\* no errors column fails with a KeyError whose text holds the column name
\* errors, and returns no insight row.
C5_MissingErrorsKeyError ==
    (/\ call.op = "create_insights"
     /\ call.error_type \in supported_agg_errors
     /\ "errors" \notin Range(df.columns)) =>
        /\ ~ret.ok
        /\ ret.kind = "KeyError"
        /\ ret.text = "errors"

\* C5's case: the frame of the test, whose only column is random
C5_Witness ==
    /\ call.op = "create_insights"
    /\ call.error_type = "MSE"
    /\ df.columns = <<"random">>
    /\ ~ret.ok
    /\ ret.kind = "KeyError"

\* C8: for model_type 'classification' create_accuracy computes RAW, the mean
\* of the residuals, for every group and names the statistic column RAW,
\* whatever error_type was passed, a value outside the supported set
\* included; for any other model_type the caller's error_type names the
\* column, and a value outside the supported set is rejected.
C8_ClassificationForcesRaw ==
    (/\ call.op = "create_accuracy"
     /\ call.groupby = PyStr("col2")
     /\ {"errors", "col2"} \subseteq Range(df.columns)) =>
        IF call.model_type = "classification"
        THEN /\ ret.ok
             /\ Range(ret.val.columns) = InsightColumns("RAW")
             /\ \A v \in Range(df.data["col2"]) :
                   \E i \in DOMAIN ret.val.index :
                       /\ ret.val.data["groupByValue"][i] = v
                       /\ ret.val.data["RAW"][i] =
                              [num |-> Sum(ResidualsOf(v)),
                               den |-> Len(ResidualsOf(v)),
                               root |-> FALSE]
        ELSE IF call.error_type \in supported_agg_errors
        THEN ret.ok /\ Range(ret.val.columns) = InsightColumns(call.error_type)
        ELSE ~ret.ok /\ ret.kind = "AssertionError"

\* C8's case: classification with an error_type outside the supported set
C8_Witness ==
    /\ call.op = "create_accuracy"
    /\ call.model_type = "classification"
    /\ call.error_type = "R2"
    /\ ret.ok
    /\ "RAW" \in Range(ret.val.columns)
    /\ Len(ret.val.index) = 2

\* C9: a parameter outside its closed enumeration is rejected and nothing is
\* returned: create_insights with error_type outside {MSE, RMSE, MAE, RAW},
\* to_json with vartype outside {Continuous, Categorical, Accuracy,
\* Percentile} or html_type outside {error, sensitivity, percentile}, on any
\* frame.
C9_EnumerationsValidated ==
    /\ (call.op = "create_insights" /\ call.error_type \notin supported_agg_errors)
           => ~ret.ok
    /\ (/\ call.op = "to_json"
        /\ \/ call.vartype \notin {"Continuous", "Categorical", "Accuracy", "Percentile"}
           \/ call.html_type \notin {"error", "sensitivity", "percentile"})
           => ~ret.ok

\* C9's case: to_json with a vartype outside the enumeration, all else valid
C9_Witness ==
    /\ call.op = "to_json"
    /\ call.vartype = "Ordinal"
    /\ call.html_type = "sensitivity"
    /\ ~ret.ok

\* to_json was called with a valid vartype and a valid html_type
ToJsonCase ==
    /\ call.op = "to_json"
    /\ call.vartype \in {"Continuous", "Categorical", "Accuracy", "Percentile"}
    /\ call.html_type \in {"error", "sensitivity", "percentile"}

\* the hundredth nearest to a magnitude of m thousandths
NearestHundredth(m) == CHOOSE h \in 0..(m \div 10 + 1) : Abs(10 * h - m) < 5

\* C10: to_json with valid vartype and html_type returns a payload whose Type
\* is vartype and whose Data holds one record per row of the table, in row
\* order, each mapping every column to the row's value; the payload has a
\* Change field exactly when html_type is 'sensitivity', and Change is the
\* string form of incremental_val, a float being rounded to the nearest
\* hundredth first (None gives 'None').
C10_ToJsonPayload ==
    ToJsonCase =>
        /\ ret.ok
        /\ ret.val.Type = call.vartype
        /\ Len(ret.val.Data) = Len(df.index)
        /\ \A i \in DOMAIN ret.val.Data :
              /\ DOMAIN ret.val.Data[i] = Range(df.columns)
              /\ \A c \in Range(df.columns) : ret.val.Data[i][c] = df.data[c][i]
        /\ ("Change" \in DOMAIN ret.val) <=> (call.html_type = "sensitivity")
        /\ DOMAIN ret.val \subseteq {"Type", "Change", "Data"}
        /\ call.html_type = "sensitivity" =>
              LET x == call.incremental_val IN
              ret.val.Change =
                  IF x.tag = "float"
                  THEN Str([x EXCEPT !.mag = 10 * NearestHundredth(x.mag)])
                  ELSE Str(x)

\* C10's case: a sensitivity payload for 1.234 on a table of two columns
C10_Witness ==
    /\ ToJsonCase
    /\ call.html_type = "sensitivity"
    /\ call.incremental_val = PyFloat(1234)
    /\ Len(df.columns) = 2
    /\ Len(df.index) = 2
    /\ ret.ok
    /\ ret.val.Change = "1.23"

\* the Data of the payloads ps, concatenated in order
RECURSIVE ConcatData(_)
ConcatData(ps) == IF ps = <<>> THEN <<>> ELSE Head(ps).Data \o ConcatData(Tail(ps))

\* C6: flatten_json on a non-empty list of payloads [P1..Pk] returns one
\* payload whose Data is P1.Data, ..., Pk.Data (as they were at the call)
\* concatenated in input order and whose Type and Change are those of P1; for
\* k = 1 it returns P1 unchanged.
C6_FlattenConcatenates ==
    (call.op = "flatten_json" /\ call.dictlist # <<>>) =>
        /\ ret.ok
        /\ LET out == heap[ret.val.ref]
               P1 == call.payloads[1]
           IN /\ out.Data = ConcatData(call.payloads)
              /\ out.Type = P1.Type
              /\ ("Change" \in DOMAIN out) <=> ("Change" \in DOMAIN P1)
              /\ "Change" \in DOMAIN P1 => out.Change = P1.Change
              /\ Len(call.dictlist) = 1 => out = P1

\* C7: no operation changes a frame or a payload the caller holds: after any
\* call, the caller's frame and each of its payloads are as they were before.
C7_InputsNeverMutated ==
    [][/\ df' = df
       /\ \A i \in DOMAIN heap : heap'[i] = heap[i]]_vars

\* the columns, row labels, values and dtypes of two frames are the same
SameFrame(s, t) ==
    /\ s.columns = t.columns
    /\ s.index = t.index
    /\ s.data = t.data
    /\ s.dtypes = t.dtypes

TextDtypes == {"object", "category"}

\* C11: convert_categorical_independent always succeeds; its output has no
\* text or categorical column, every other column passes through unchanged,
\* and a text column becomes integer codes that are equal exactly where the
\* values were; on a frame without text or categorical columns it returns a
\* frame equal to its input and gives the warning; applied to its own output
\* it returns that output again (encode(encode(t)) = encode(t)), with the
\* warning.
C11_EncodeIdempotent ==
    call.op = "convert_categorical_independent" =>
        /\ ret.ok
        /\ ret.val.columns = df.columns
        /\ ret.val.index = df.index
        /\ \A c \in Range(df.columns) :
              /\ ret.val.dtypes[c] \notin TextDtypes
              /\ Len(ret.val.data[c]) = Len(df.data[c])
              /\ IF df.dtypes[c] \in TextDtypes
                 THEN \A i, j \in DOMAIN df.data[c] :
                         (ret.val.data[c][i] = ret.val.data[c][j])
                             <=> (df.data[c][i] = df.data[c][j])
                 ELSE /\ ret.val.data[c] = df.data[c]
                      /\ ret.val.dtypes[c] = df.dtypes[c]
        /\ ret.warned <=> (\A c \in Range(df.columns) : df.dtypes[c] \notin TextDtypes)
        /\ ret.warned => SameFrame(ret.val, df)
        /\ LET again == convert_categorical_independent(ret.val)
           IN /\ again.ok
              /\ again.warned
              /\ SameFrame(again.val, ret.val)

\* C11's case: a frame with a text column holding both labels was encoded
C11_Witness ==
    /\ call.op = "convert_categorical_independent"
    /\ "col2" \in Range(df.columns)
    /\ Range(df.data["col2"]) = {"a", "b"}
    /\ ret.ok
    /\ ~ret.warned
    /\ ret.val.dtypes["col2"] = "int8"
    /\ Range(ret.val.data["col2"]) = {0, 1}

\* two fractions are the same number
FracEq(a, b) == a.num * b.den = b.num * a.den

\* C12: for true_class in {0, 1} and a probability p in [0, 1], prob_acc
\* returns 1 - p when true_class is 1 and p when true_class is 0, a number
\* in [0, 1]; prob_acc(1, 0.8) is 0.2.
C12_ProbAccIsClassError ==
    (call.op = "prob_acc" /\ call.true_class \in {0, 1}
        /\ 0 <= call.pred_prob.num /\ call.pred_prob.num <= call.pred_prob.den) =>
        LET p == call.pred_prob
            r == ret.val
        IN /\ ret.ok
           /\ r.den > 0
           /\ call.true_class = 1 => FracEq(r, Frac(p.den - p.num, p.den))
           /\ call.true_class = 0 => FracEq(r, p)
           /\ 0 <= r.num /\ r.num <= r.den
           /\ (call.true_class = 1 /\ FracEq(p, Frac(8, 10))) => FracEq(r, Frac(2, 10))

\* C12's case: prob_acc(1, 0.8) was called and returned 0.2
C12_Witness ==
    /\ call.op = "prob_acc"
    /\ call.true_class = 1
    /\ FracEq(call.pred_prob, Frac(8, 10))
    /\ ret.ok
    /\ FracEq(ret.val, Frac(2, 10))

===========================================================================
